---- MODULE Spec2Model ----
(***************************************************************************)
(* Schedule page of the assistant (src/src/pages/Index.tsx, richer         *)
(* variant, lines 1-427): the schedule collection, the voice-recognition   *)
(* session that adds items through parseAndAddSchedule, the dialog add,    *)
(* the delete, and the polling effect that runs checkSchedules.            *)
(*                                                                         *)
(* Text is a sequence of one-character strings.  Time is counted in clock  *)
(* steps; PollSteps steps make one polling interval of the page.           *)
(***************************************************************************)
EXTENDS Integers, Sequences, FiniteSets, TLC

(***************************************************************************)
(* Bounds of the model.                                                    *)
(***************************************************************************)
\* clock steps per polling interval (the resolution of the model's clock)
PollSteps == 2
\* clock steps the page is followed for after it mounts
MaxElapsed == 8
\* what the user does while the page is followed: dialog submits, deletes
\* and recognition sessions started
MaxOps == 2
\* distinct Date.now() readings inside one clock step
MaxMs == 1
\* checkSchedules calls followed by the clock-only specification
MaxTicks == 4
\* number of phrases a generated transcript is put together from
MaxParts == 3

(***************************************************************************)
(* Program constants.                                                      *)
(***************************************************************************)
IntervalMs == 30000
MinuteMs == 1000 * 60
DefaultHours == 9
DefaultMinutes == 0
DefaultReminderMinutes == 10
MinutesPerDay == 24 * 60

StepMs == IntervalMs \div PollSteps
\* line 343: setInterval(checkSchedules, 30000), in clock steps
IntervalSteps_Slow == 5 * (IntervalMs \div StepMs)
IntervalSteps == IntervalMs \div StepMs
StepsPerMinute == MinuteMs \div StepMs
StepsPerDay == MinutesPerDay * StepsPerMinute

(***************************************************************************)
(* Characters and strings.                                                 *)
(***************************************************************************)
Digits == {"0", "1", "2", "3", "4", "5", "6", "7", "8", "9"}

DigitVal(c) ==
  CASE c = "0" -> 0 [] c = "1" -> 1 [] c = "2" -> 2 [] c = "3" -> 3
    [] c = "4" -> 4 [] c = "5" -> 5 [] c = "6" -> 6 [] c = "7" -> 7
    [] c = "8" -> 8 [] c = "9" -> 9

DigitChar(n) ==
  CASE n = 0 -> "0" [] n = 1 -> "1" [] n = 2 -> "2" [] n = 3 -> "3"
    [] n = 4 -> "4" [] n = 5 -> "5" [] n = 6 -> "6" [] n = 7 -> "7"
    [] n = 8 -> "8" [] n = 9 -> "9"

\* String.prototype.toLowerCase, character by character
LowerChar(c) ==
  CASE c = "A" -> "a" [] c = "B" -> "b" [] c = "C" -> "c" [] c = "D" -> "d"
    [] c = "E" -> "e" [] c = "F" -> "f" [] c = "G" -> "g" [] c = "H" -> "h"
    [] c = "I" -> "i" [] c = "J" -> "j" [] c = "K" -> "k" [] c = "L" -> "l"
    [] c = "M" -> "m" [] c = "N" -> "n" [] c = "O" -> "o" [] c = "P" -> "p"
    [] c = "Q" -> "q" [] c = "R" -> "r" [] c = "S" -> "s" [] c = "T" -> "t"
    [] c = "U" -> "u" [] c = "V" -> "v" [] c = "W" -> "w" [] c = "X" -> "x"
    [] c = "Y" -> "y" [] c = "Z" -> "z"
    [] OTHER -> c

\* String.prototype.toUpperCase, character by character
UpperChar(c) ==
  CASE c = "a" -> "A" [] c = "b" -> "B" [] c = "c" -> "C" [] c = "d" -> "D"
    [] c = "e" -> "E" [] c = "f" -> "F" [] c = "g" -> "G" [] c = "h" -> "H"
    [] c = "i" -> "I" [] c = "j" -> "J" [] c = "k" -> "K" [] c = "l" -> "L"
    [] c = "m" -> "M" [] c = "n" -> "N" [] c = "o" -> "O" [] c = "p" -> "P"
    [] c = "q" -> "Q" [] c = "r" -> "R" [] c = "s" -> "S" [] c = "t" -> "T"
    [] c = "u" -> "U" [] c = "v" -> "V" [] c = "w" -> "W" [] c = "x" -> "X"
    [] c = "y" -> "Y" [] c = "z" -> "Z"
    [] OTHER -> c

toLowerCase(s) == [k \in 1..Len(s) |-> LowerChar(s[k])]

\* \s of the regular expressions
IsSpace(c) == c = " "

\* the value JavaScript calls undefined, and the null of a failed match
Undefined == <<"undefined">>
Null == <<>>

\* s.substring(i-1, j) with 1-based inclusive bounds
Sub(s, i, j) == IF j < i THEN <<>> ELSE SubSeq(s, i, j)

\* n characters of class \d start at position i
DigitsAt(s, i, n) ==
  /\ i >= 1
  /\ i + n - 1 <= Len(s)
  /\ \A k \in 0..(n - 1) : s[i + k] \in Digits

\* the literal w stands at position i (flag i: letters compare ignoring case)
HasAt(s, i, w) ==
  /\ i >= 1
  /\ i + Len(w) - 1 <= Len(s)
  /\ \A k \in 1..Len(w) : LowerChar(s[i + k - 1]) = w[k]

\* String.prototype.includes
includes(s, w) == \E i \in 1..(Len(s) + 1) : HasAt(s, i, w)

\* \s* from position i: the position after the longest run of spaces
RECURSIVE SkipSpaces(_, _)
SkipSpaces(s, i) ==
  IF i <= Len(s) /\ IsSpace(s[i]) THEN SkipSpaces(s, i + 1) ELSE i

\* \d+ from position i: the position after the longest run of digits
RECURSIVE SkipDigits(_, _)
SkipDigits(s, i) ==
  IF i <= Len(s) /\ s[i] \in Digits THEN SkipDigits(s, i + 1) ELSE i

\* (am|pm)? at position i: the group, or undefined when it took nothing
PeriodAt(s, i) ==
  IF HasAt(s, i, <<"a", "m">>) \/ HasAt(s, i, <<"p", "m">>)
  THEN Sub(s, i, i + 1)
  ELSE Undefined

\* parseInt of a string: the leading digits, NaN when there are none
NaN == -1
RECURSIVE DigitsValue(_, _)
DigitsValue(s, acc) ==
  IF s = <<>> \/ Head(s) \notin Digits THEN acc
  ELSE DigitsValue(Tail(s), acc * 10 + DigitVal(Head(s)))

parseInt(s) ==
  IF s = Undefined \/ s = <<>> \/ Head(s) \notin Digits THEN NaN
  ELSE DigitsValue(s, 0)

isNaN(n) == n = NaN

\* String(n) of a non-negative integer
RECURSIVE NumberToString(_)
NumberToString(n) ==
  IF n < 10 THEN <<DigitChar(n)>>
  ELSE NumberToString(n \div 10) \o <<DigitChar(n % 10)>>

\* s.padStart(2, '0')
padStart2(s) == IF Len(s) < 2 THEN <<"0">> \o s ELSE s

(***************************************************************************)
(* The three time patterns of parseAndAddSchedule.  A match is the array   *)
(* String.prototype.match returns: the matched text followed by one entry  *)
(* per capturing group of the pattern, or null.                            *)
(***************************************************************************)
\* match[k] of JavaScript: undefined beyond the end of the array
Group(m, k) == IF k + 1 <= Len(m) THEN m[k + 1] ELSE Undefined

\* the first position of s at which Ok holds, 0 when none does
FirstPos(s, Ok(_)) ==
  LET hits == {i \in 1..Len(s) : Ok(i)}
  IN IF hits = {} THEN 0
     ELSE CHOOSE i \in hits : \A j \in hits : i <= j

\* /(\d{1,2}):(\d{2})\s*(am|pm)?/i tried at position i with an n-digit hour
ColonTimeAt(s, i, n) ==
  /\ DigitsAt(s, i, n)
  /\ HasAt(s, i + n, <<":">>)
  /\ DigitsAt(s, i + n + 1, 2)

ColonTimeHourLen(s, i) == IF ColonTimeAt(s, i, 2) THEN 2 ELSE 1

MatchColonTime(s) ==
  LET Ok(i) == ColonTimeAt(s, i, 2) \/ ColonTimeAt(s, i, 1)
      i == FirstPos(s, Ok)
  IN IF i = 0 THEN Null
     ELSE LET n == ColonTimeHourLen(s, i)
              e == i + n + 3
              w == SkipSpaces(s, e)
              per == PeriodAt(s, w)
              last == IF per = Undefined THEN w - 1 ELSE w + 1
          IN << Sub(s, i, last), Sub(s, i, i + n - 1),
                Sub(s, i + n + 1, i + n + 2), per >>

\* /(\d{1,2})\s*(am|pm)/i tried at position i with an n-digit hour
BareTimeAt(s, i, n) ==
  /\ DigitsAt(s, i, n)
  /\ PeriodAt(s, SkipSpaces(s, i + n)) # Undefined

BareTimeHourLen(s, i) == IF BareTimeAt(s, i, 2) THEN 2 ELSE 1

MatchBareTime(s) ==
  LET Ok(i) == BareTimeAt(s, i, 2) \/ BareTimeAt(s, i, 1)
      i == FirstPos(s, Ok)
  IN IF i = 0 THEN Null
     ELSE LET n == BareTimeHourLen(s, i)
              w == SkipSpaces(s, i + n)
          IN << Sub(s, i, w + 1), Sub(s, i, i + n - 1), PeriodAt(s, w) >>

\* /at\s+(\d{1,2})(?::(\d{2}))?\s*(am|pm)?/i tried at position i
AtTimeAt(s, i) ==
  /\ HasAt(s, i, <<"a", "t">>)
  /\ i + 2 <= Len(s)
  /\ IsSpace(s[i + 2])
  /\ DigitsAt(s, SkipSpaces(s, i + 2), 1)

MatchAtTime(s) ==
  LET Ok(i) == AtTimeAt(s, i)
      i == FirstPos(s, Ok)
  IN IF i = 0 THEN Null
     ELSE LET h == SkipSpaces(s, i + 2)
              n == IF DigitsAt(s, h, 2) THEN 2 ELSE 1
              c == h + n
              hasMin == HasAt(s, c, <<":">>) /\ DigitsAt(s, c + 1, 2)
              e == IF hasMin THEN c + 3 ELSE c
              w == SkipSpaces(s, e)
              per == PeriodAt(s, w)
              last == IF per = Undefined THEN w - 1 ELSE w + 1
          IN << Sub(s, i, last), Sub(s, h, h + n - 1),
                IF hasMin THEN Sub(s, c + 1, c + 2) ELSE Undefined, per >>

\* timePatterns, in the order the loop tries them
timePatterns(s) == << MatchColonTime(s), MatchBareTime(s), MatchAtTime(s) >>

\* lines 67-84: the loop over timePatterns; the first pattern that matches
\* decides hours, minutes and timeFound
FirstMatch(ms) ==
  IF ms[1] # Null THEN ms[1] ELSE IF ms[2] # Null THEN ms[2] ELSE ms[3]

NormalizeHours(hours, period) ==
  LET h1 == IF period = <<"p", "m">> /\ hours < 12 THEN hours + 12 ELSE hours
  IN IF period = <<"a", "m">> /\ h1 = 12 THEN 0 ELSE h1

ParseTime(transcript) ==
  LET match == FirstMatch(timePatterns(transcript))
  IN IF match = Null
     THEN [hours |-> DefaultHours, minutes |-> DefaultMinutes, timeFound |-> FALSE]
     ELSE LET hours == parseInt(Group(match, 1))
              g2 == Group(match, 2)
              minutes == IF g2 # Undefined /\ g2 # <<>> /\ ~isNaN(parseInt(g2))
                         THEN parseInt(g2) ELSE 0
              g3 == Group(match, 3)
              period == IF g3 = Undefined THEN Undefined ELSE toLowerCase(g3)
          IN [hours |-> NormalizeHours(hours, period), minutes |-> minutes,
              timeFound |-> TRUE]

(***************************************************************************)
(* The two reminder patterns (lines 86-99).                                *)
(***************************************************************************)
\* minutes?\s*(?:before|early|ahead) from position i: the position after
\* the match, 0 when it fails
MinutesBeforeEnd(s, i) ==
  IF ~HasAt(s, i, <<"m", "i", "n", "u", "t", "e">>) THEN 0
  ELSE LET a == IF HasAt(s, i + 6, <<"s">>) THEN i + 7 ELSE i + 6
           w == SkipSpaces(s, a)
       IN IF HasAt(s, w, <<"b", "e", "f", "o", "r", "e">>) THEN w + 6
          ELSE IF HasAt(s, w, <<"e", "a", "r", "l", "y">>) THEN w + 5
          ELSE IF HasAt(s, w, <<"a", "h", "e", "a", "d">>) THEN w + 5
          ELSE 0

\* /(\d+)\s*minutes?\s*(?:before|early|ahead)/i tried at position i
LeadBeforeEnd(s, i) ==
  IF DigitsAt(s, i, 1)
  THEN MinutesBeforeEnd(s, SkipSpaces(s, SkipDigits(s, i)))
  ELSE 0

MatchLeadBefore(s) ==
  LET Ok(i) == LeadBeforeEnd(s, i) # 0
      i == FirstPos(s, Ok)
  IN IF i = 0 THEN Null
     ELSE << Sub(s, i, LeadBeforeEnd(s, i) - 1), Sub(s, i, SkipDigits(s, i) - 1) >>

\* the position of (\d+) in /remind\s*(?:me)?\s*(\d+)\s*minutes?/i tried at i
RemindDigitsPos(s, i) ==
  LET a == SkipSpaces(s, i + 6)
      b == IF HasAt(s, a, <<"m", "e">>) THEN a + 2 ELSE a
  IN SkipSpaces(s, b)

\* /remind\s*(?:me)?\s*(\d+)\s*minutes?/i tried at position i: the position
\* after the match, 0 when it fails
RemindLeadEnd(s, i) ==
  IF HasAt(s, i, <<"r", "e", "m", "i", "n", "d">>)
     /\ DigitsAt(s, RemindDigitsPos(s, i), 1)
  THEN LET m == SkipSpaces(s, SkipDigits(s, RemindDigitsPos(s, i)))
       IN IF ~HasAt(s, m, <<"m", "i", "n", "u", "t", "e">>) THEN 0
          ELSE IF HasAt(s, m + 6, <<"s">>) THEN m + 7 ELSE m + 6
  ELSE 0

MatchRemindLead(s) ==
  LET Ok(i) == RemindLeadEnd(s, i) # 0
      i == FirstPos(s, Ok)
  IN IF i = 0 THEN Null
     ELSE LET d == RemindDigitsPos(s, i)
          IN << Sub(s, i, RemindLeadEnd(s, i) - 1), Sub(s, d, SkipDigits(s, d) - 1) >>

reminderPatterns(s) == << MatchLeadBefore(s), MatchRemindLead(s) >>

ParseReminderMinutes(transcript) ==
  LET ms == reminderPatterns(transcript)
  IN IF ms[1] # Null THEN parseInt(Group(ms[1], 1))
     ELSE IF ms[2] # Null THEN parseInt(Group(ms[2], 1))
     ELSE DefaultReminderMinutes

(***************************************************************************)
(* The title (lines 101-111).                                              *)
(***************************************************************************)
\* \d{1,2}(:\d{2})?\s*(am|pm)? from position h, where a digit stands: the
\* position after the match
TimePhraseEnd(s, h) ==
  LET n == IF DigitsAt(s, h, 2) THEN 2 ELSE 1
      c == h + n
      e == IF HasAt(s, c, <<":">>) /\ DigitsAt(s, c + 1, 2) THEN c + 3 ELSE c
      w == SkipSpaces(s, e)
  IN IF PeriodAt(s, w) = Undefined THEN w ELSE w + 2

\* the position after the literal w at position i, 0 when it is not there
LiteralEnd(s, i, w) == IF HasAt(s, i, w) THEN i + Len(w) ELSE 0

\* the alternatives of the replace pattern of line 103, in order
TitleAlternatives(s, i) ==
  << LiteralEnd(s, i, <<"a", "d", "d", " ", "s", "c", "h", "e", "d", "u", "l", "e">>),
     LiteralEnd(s, i, <<"s", "c", "h", "e", "d", "u", "l", "e">>),
     LiteralEnd(s, i, <<"r", "e", "m", "i", "n", "d", " ", "m", "e", " ", "t", "o">>),
     LiteralEnd(s, i, <<"r", "e", "m", "i", "n", "d", " ", "m", "e">>),
     LiteralEnd(s, i, <<"s", "e", "t", " ", "r", "e", "m", "i", "n", "d", "e", "r",
                        " ", "f", "o", "r">>),
     LiteralEnd(s, i, <<"s", "e", "t", " ", "r", "e", "m", "i", "n", "d", "e", "r">>),
     IF AtTimeAt(s, i) THEN TimePhraseEnd(s, SkipSpaces(s, i + 2)) ELSE 0,
     IF DigitsAt(s, i, 1) THEN TimePhraseEnd(s, i) ELSE 0,
     LeadBeforeEnd(s, i),
     RemindLeadEnd(s, i) >>

\* the position after the text the pattern matches at position i: the first
\* alternative that matches there decides; 0 when none does
ReplaceEnd(s, i) ==
  LET alts == TitleAlternatives(s, i)
      IsHit(k) == alts[k] # 0
      k == FirstPos(alts, IsHit)
  IN IF k = 0 THEN 0 ELSE alts[k]

\* transcript.replace(/.../gi, ''): every match, left to right, is removed
RECURSIVE ReplaceAll(_, _)
ReplaceAll(s, i) ==
  IF i > Len(s) THEN <<>>
  ELSE LET e == ReplaceEnd(s, i)
       IN IF e = 0 THEN <<s[i]>> \o ReplaceAll(s, i + 1)
          ELSE ReplaceAll(s, e)

\* String.prototype.trim
RECURSIVE TrimEnd(_)
TrimEnd(s) ==
  IF s # <<>> /\ IsSpace(s[Len(s)]) THEN TrimEnd(Sub(s, 1, Len(s) - 1)) ELSE s

trim(s) == TrimEnd(Sub(s, SkipSpaces(s, 1), Len(s)))

NewReminder == <<"N", "e", "w", " ", "R", "e", "m", "i", "n", "d", "e", "r">>

ParseTitle(transcript) ==
  LET stripped == trim(ReplaceAll(transcript, 1))
      title == IF stripped = <<>> THEN <<>>
               ELSE <<UpperChar(stripped[1])>> \o Tail(stripped)
  IN IF Len(title) < 2 THEN NewReminder ELSE title

\* line 113: the time of the new item, zero-padded and joined by a colon
TimeString_NoPad(hours, minutes) ==
  NumberToString(hours) \o <<":">> \o NumberToString(minutes)
TimeString(hours, minutes) ==
  padStart2(NumberToString(hours)) \o <<":">> \o padStart2(NumberToString(minutes))

(***************************************************************************)
(* State of the schedule page.                                             *)
(***************************************************************************)
VARIABLES
  schedules,      \* useState<ScheduleItem[]>: the collection, in list order
  isListening,    \* useState(false)
  recognition,    \* the SpeechRecognition session in flight and what its
                  \* handlers closed over, or NoRecognition
  timers,         \* live setInterval timers: clock steps until each fires;
                  \* the last one belongs to the current run of the effect
  effectPending,  \* a render with a new schedules array is committed and
                  \* the polling effect has not run for it yet
  mounted,        \* the page component is mounted
  now,            \* the wall clock, in clock steps since midnight of day 0
  ms,             \* the Date.now() reading inside the current clock step
  elapsed,        \* clock steps since the page mounted
  spoken,         \* what the last handler passed to speak, in order
  toasts,         \* what the last handler passed to toast, in order
  ops,            \* how many items the user added in the dialog or deleted
                  \* and how many recognition sessions were started; on
                  \* the navigation page, how many destinations were
                  \* searched for
  tickLog         \* clock-only specification: the checkSchedules calls so far

\* State of the navigation page and of the browser's speech synthesis.
VARIABLES
  routeSteps,        \* useState<RouteStep[]>([])
  currentStepIndex,  \* useState(0)
  isNavigating,      \* useState(false)
  voiceEnabled,      \* useState(true)
  requests,          \* searchDestination calls whose fetches are in flight,
                     \* each with the voiceEnabled its speak closed over
  timeouts,          \* setTimeout callbacks that have not run yet, oldest first
  announcedLog,      \* indexes of the steps announced by the 30 m rule since
                     \* the route was set
  synth,             \* window.speechSynthesis: the utterance being spoken
                     \* followed by the queued ones
  userLocation       \* useState<[number, number] | null>(null)

nav == << routeSteps, currentStepIndex, isNavigating, voiceEnabled, requests,
          timeouts, announcedLog, synth, userLocation >>

\* userLocation before a position was found
NoLocation == -1

page == << schedules, isListening, recognition, timers, effectPending,
           mounted, now, ms, elapsed, tickLog >>

vars == << schedules, isListening, recognition, timers, effectPending,
           mounted, now, ms, elapsed, spoken, toasts, ops,
           tickLog, nav >>

\* part_001 lines 23-33: the navigation page as constructed, nothing spoken yet
NavConstructed ==
  /\ routeSteps = <<>>
  /\ currentStepIndex = 0
  /\ isNavigating = FALSE
  /\ voiceEnabled = TRUE
  /\ requests = <<>>
  /\ timeouts = <<>>
  /\ announcedLog = <<>>
  /\ synth = <<>>
  /\ userLocation = NoLocation

\* clock step of the time of day h:m:s on day d
At(d, h, m, s) ==
  d * StepsPerDay + (((h * 60 + m) * 60 + s) * 1000) \div StepMs

\* Date.now(), in milliseconds
DateNow(t, sub) == t * StepMs + sub

(***************************************************************************)
(* Schedule items.                                                         *)
(***************************************************************************)
\* lines 23-38: the two items the page starts with (their reminded and
\* notified are absent, which every test of them reads as false)
InitialSchedules ==
  << [id |-> <<"1">>,
      title |-> <<"M", "o", "r", "n", "i", "n", "g", " ", "M", "e", "d", "i",
                  "c", "i", "n", "e">>,
      time |-> <<"0", "8", ":", "0", "0">>,
      description |-> <<"T", "a", "k", "e", " ", "b", "l", "o", "o", "d", " ",
                        "p", "r", "e", "s", "s", "u", "r", "e", " ", "m", "e",
                        "d", "i", "c", "a", "t", "i", "o", "n", " ", "w", "i",
                        "t", "h", " ", "w", "a", "t", "e", "r">>,
      reminderMinutes |-> 10, reminded |-> FALSE, notified |-> FALSE],
     [id |-> <<"2">>,
      title |-> <<"L", "u", "n", "c", "h", " ", "R", "e", "m", "i", "n", "d",
                  "e", "r">>,
      time |-> <<"1", "2", ":", "3", "0">>,
      description |-> <<"T", "i", "m", "e", " ", "f", "o", "r", " ", "l", "u",
                        "n", "c", "h">>,
      reminderMinutes |-> 10, reminded |-> FALSE, notified |-> FALSE] >>

\* lines 264-272: the item addSchedule builds
NewSchedule(t, sub, title, time, description, reminderMinutes) ==
  [id |-> NumberToString(DateNow(t, sub)), title |-> title, time |-> time,
   description |-> description, reminderMinutes |-> reminderMinutes,
   reminded |-> FALSE, notified |-> FALSE]

IdsOf(list) == {list[i].id : i \in DOMAIN list}

(***************************************************************************)
(* checkSchedules (lines 290-337).                                         *)
(***************************************************************************)
\* Number(s) of a string of digits; the empty string is 0
Number(s) ==
  IF s = Undefined THEN NaN
  ELSE IF s = <<>> THEN 0
  ELSE IF \A k \in 1..Len(s) : s[k] \in Digits THEN DigitsValue(s, 0)
  ELSE NaN

\* schedule.time.split(':'): the first two parts
SplitTime(time) ==
  LET IsColon(i) == time[i] = ":"
      c1 == FirstPos(time, IsColon)
  IN IF c1 = 0 THEN << time, Undefined >>
     ELSE LET rest == Sub(time, c1 + 1, Len(time))
              RestColon(i) == rest[i] = ":"
              c2 == FirstPos(rest, RestColon)
          IN << Sub(time, 1, c1 - 1),
                IF c2 = 0 THEN rest ELSE Sub(rest, 1, c2 - 1) >>

scheduleHours(item) == Number(SplitTime(item.time)[1])
scheduleMinutes(item) == Number(SplitTime(item.time)[2])

\* the date is valid: no part of the time was NaN
ValidTime(item) == ~isNaN(scheduleHours(item)) /\ ~isNaN(scheduleMinutes(item))

\* scheduleDate.setHours(h, m, 0, 0) on today's date, in clock steps
scheduleDate(item, t) ==
  (t - (t % StepsPerDay))
    + (scheduleHours(item) * 60 + scheduleMinutes(item)) * StepsPerMinute

timeDiffMs(item, t) == (scheduleDate(item, t) - t) * StepMs

\* Math.floor(timeDiffMs / (1000 * 60))
timeDiffMinutes(item, t) == timeDiffMs(item, t) \div MinuteMs

\* schedule.reminderMinutes || 10
EffectiveReminderMinutes_Fixed(item) == DefaultReminderMinutes
EffectiveReminderMinutes(item) ==
  IF item.reminderMinutes = 0 THEN DefaultReminderMinutes
  ELSE item.reminderMinutes

\* line 306, with timeDiffMinutes and reminderMinutes as computed above it
AdvanceDue(item, diff, lead) ==
  /\ ~item.reminded
  /\ diff > 0
  /\ diff <= lead

\* line 319, reached only when line 306 did not return
ExactDue_Wide(item, diff) ==
  /\ ~item.notified
  /\ diff <= 0
  /\ diff >= -2
ExactDue(item, diff) ==
  /\ ~item.notified
  /\ diff <= 0
  /\ diff > -2

\* which branch of the map callback the item takes at clock reading t; a
\* NaN date fails every comparison
Branch(item, t) ==
  IF ~ValidTime(item) THEN "none"
  ELSE LET diff == timeDiffMinutes(item, t)
       IN IF AdvanceDue(item, diff, EffectiveReminderMinutes(item)) THEN "advance"
          ELSE IF ExactDue(item, diff) THEN "exact"
          ELSE "none"

\* the item the map callback returns
CheckedItem_NoFlag(item, branch) ==
  IF branch = "advance" THEN [item EXCEPT !.reminded = TRUE] ELSE item
CheckedItem_BothFlags(item, branch) ==
  IF branch = "advance" THEN [item EXCEPT !.reminded = TRUE, !.notified = TRUE]
  ELSE IF branch = "exact" THEN [item EXCEPT !.notified = TRUE]
  ELSE item
CheckedItem(item, branch) ==
  IF branch = "advance" THEN [item EXCEPT !.reminded = TRUE]
  ELSE IF branch = "exact" THEN [item EXCEPT !.notified = TRUE]
  ELSE item

\* the toast and speech the map callback emits for the item at position i
NoticeFor(item, i, branch, t) ==
  IF branch = "advance"
  THEN [kind |-> "advance", index |-> i, title |-> item.title,
        minutes |-> timeDiffMinutes(item, t)]
  ELSE IF branch = "exact"
  THEN [kind |-> "exact", index |-> i, title |-> item.title,
        description |-> IF item.description = Undefined THEN <<>>
                        ELSE item.description]
  ELSE [kind |-> "none"]

IsNotice(n) == n.kind # "none"

\* one call of checkSchedules at clock reading t: the mapped array, the
\* notices in item order, and hasUpdates
checkSchedules_FirstOnly(list, t) ==
  LET found == [i \in 1..Len(list) |-> Branch(list[i], t)]
      Due(i) == found[i] # "none"
      first == FirstPos(list, Due)
      branches == [i \in 1..Len(list) |-> IF i = first THEN found[i] ELSE "none"]
      all == [i \in 1..Len(list) |-> NoticeFor(list[i], i, branches[i], t)]
      notices == SelectSeq(all, IsNotice)
  IN [updatedSchedules |->
        [i \in 1..Len(list) |-> CheckedItem(list[i], branches[i])],
      notices |-> notices,
      hasUpdates |-> notices # <<>>]
checkSchedules(list, t) ==
  LET branches == [i \in 1..Len(list) |-> Branch(list[i], t)]
      all == [i \in 1..Len(list) |-> NoticeFor(list[i], i, branches[i], t)]
      notices == SelectSeq(all, IsNotice)
  IN [updatedSchedules |->
        [i \in 1..Len(list) |-> CheckedItem(list[i], branches[i])],
      notices |-> notices,
      hasUpdates |-> notices # <<>>]

(***************************************************************************)
(* parseAndAddSchedule (lines 59-122) and addSchedule (lines 263-278).     *)
(***************************************************************************)
\* what parseAndAddSchedule hands to addSchedule, and timeFound
ParseTranscript(transcript) ==
  LET pt == ParseTime(transcript)
  IN [title |-> ParseTitle(transcript),
      time |-> TimeString(pt.hours, pt.minutes),
      reminderMinutes |-> ParseReminderMinutes(transcript),
      timeFound |-> pt.timeFound]

\* setSchedules([...schedules, newSchedule]) over the schedules array the
\* calling closure holds
addSchedule(closure, t, sub, title, time, description, reminderMinutes) ==
  Append(closure, NewSchedule(t, sub, title, time, description, reminderMinutes))

\* line 213: the words that make a transcript a command
IsCommand(transcript) ==
  \/ includes(transcript, <<"a", "d", "d">>)
  \/ includes(transcript, <<"s", "c", "h", "e", "d", "u", "l", "e">>)
  \/ includes(transcript, <<"r", "e", "m", "i", "n", "d">>)
  \/ includes(transcript, <<"s", "e", "t">>)

\* lines 206-217: what onresult makes of what the recognizer heard
Heard(said) ==
  LET transcript == toLowerCase(said)
  IN [transcript |-> transcript,
      command |-> IsCommand(transcript),
      parsed |-> ParseTranscript(transcript)]

(***************************************************************************)
(* Inputs.                                                                 *)
(***************************************************************************)
\* what the recognizer may deliver while the page is followed
VoiceTranscripts ==
  { <<"R", "e", "m", "i", "n", "d", " ", "m", "e", " ", "a", "t", " ", "8",
      " ", "A", "M", " ", "0", " ", "m", "i", "n", "u", "t", "e", "s", " ",
      "b", "e", "f", "o", "r", "e">>,
    <<"h", "e", "l", "l", "o">> }

\* what the fields of the dialog may hold on submit
DialogInputs ==
  { [title |-> <<>>, time |-> <<"0", "8", ":", "0", "0">>,
     description |-> <<>>],
    [title |-> <<"B", "u", "s">>, time |-> <<"0", "7", ":", "5", "8">>,
     description |-> <<"4", "2">>] }

\* the clock readings the page may mount at
StartTimes == { At(0, 7, 59, 0) }

HeardVoice == [said \in VoiceTranscripts |-> Heard(said)]

NoRecognition == [phase |-> "none"]

(***************************************************************************)
(* The page.                                                               *)
(***************************************************************************)
Init ==
  /\ schedules = InitialSchedules
  /\ isListening = FALSE
  /\ recognition = NoRecognition
  /\ timers = <<>>
  /\ effectPending = TRUE
  /\ mounted = TRUE
  /\ now \in StartTimes
  /\ ms = 0
  /\ elapsed = 0
  /\ spoken = <<>>
  /\ toasts = <<>>
  /\ ops = 0
  /\ tickLog = <<>>
  /\ NavConstructed

\* no handler runs between a commit and the effect it schedules
Idle == mounted /\ ~effectPending

\* clearInterval(interval) of the effect's cleanup: the interval of the
\* current run of the effect goes
ClearOwn_Nothing(live) == live
ClearOwn(live) == IF live = <<>> THEN <<>> ELSE SubSeq(live, 1, Len(live) - 1)

\* lines 289-345: the polling effect runs for a new schedules array: the
\* cleanup of the previous run clears its interval, checkSchedules runs at
\* once, and a new interval starts
EffectRun ==
  /\ mounted
  /\ effectPending
  /\ LET r == checkSchedules(schedules, now)
     IN /\ schedules' = IF r.hasUpdates THEN r.updatedSchedules ELSE schedules
        /\ effectPending' = r.hasUpdates
        /\ spoken' = r.notices
        /\ toasts' = r.notices
  /\ timers' = Append(ClearOwn(timers), IntervalSteps)
  /\ UNCHANGED << isListening, recognition, mounted, now, ms, elapsed, ops, tickLog, nav >>

\* the interval fires: checkSchedules over the schedules array of the
\* effect run that started the interval
Tick ==
  /\ Idle
  /\ \E i \in 1..Len(timers) :
       /\ timers[i] = 0
       /\ timers' = [timers EXCEPT ![i] = IntervalSteps]
  /\ LET r == checkSchedules(schedules, now)
     IN /\ schedules' = IF r.hasUpdates THEN r.updatedSchedules ELSE schedules
        /\ effectPending' = r.hasUpdates
        /\ spoken' = r.notices
        /\ toasts' = r.notices
  /\ UNCHANGED << isListening, recognition, mounted, now, ms, elapsed, ops, tickLog, nav >>

\* the clock moves one step; a timer that is due fires first
Advance ==
  /\ Idle
  /\ elapsed < MaxElapsed
  /\ \A i \in 1..Len(timers) : timers[i] > 0
  /\ now' = now + 1
  /\ ms' = 0
  /\ elapsed' = elapsed + 1
  /\ timers' = [i \in 1..Len(timers) |-> timers[i] - 1]
  /\ spoken' = <<>>
  /\ toasts' = <<>>
  /\ UNCHANGED << schedules, isListening, recognition, effectPending, mounted,
                  ops, tickLog, nav >>

\* Date.now() moves on inside the clock step, after an id was taken from
\* the current reading
MsPass ==
  /\ Idle
  /\ ms < MaxMs
  /\ \/ NumberToString(DateNow(now, ms)) \in IdsOf(schedules)
     \/ /\ recognition.phase # "none"
        /\ NumberToString(DateNow(now, ms)) \in IdsOf(recognition.closure)
  /\ ms' = ms + 1
  /\ spoken' = <<>>
  /\ toasts' = <<>>
  /\ UNCHANGED << schedules, isListening, recognition, timers, effectPending,
                  mounted, now, elapsed, ops, tickLog, nav >>

AddedToast(title, time, reminderMinutes) ==
  [title |-> "Schedule Added",
   description |-> [title |-> title, time |-> time,
                    reminderMinutes |-> reminderMinutes]]

\* AddScheduleDialog.handleSubmit -> onAdd(title, time, description): the
\* addSchedule of the latest render, reminderMinutes left to its default
handleSubmit(in) ==
  /\ Idle
  /\ in.title # <<>>
  /\ in.time # <<>>
  /\ ops < MaxOps
  /\ ops' = ops + 1
  /\ schedules' = addSchedule(schedules, now, ms, in.title, in.time,
                              in.description, DefaultReminderMinutes)
  /\ effectPending' = TRUE
  /\ spoken' = <<>>
  /\ toasts' = << AddedToast(in.title, in.time, DefaultReminderMinutes) >>
  /\ UNCHANGED << isListening, recognition, timers, mounted, now, ms, elapsed,
                  tickLog, nav >>

\* lines 280-286
deleteSchedule(id) ==
  /\ Idle
  /\ ops < MaxOps
  /\ ops' = ops + 1
  /\ schedules' = SelectSeq(schedules, LAMBDA s : s.id # id)
  /\ effectPending' = TRUE
  /\ spoken' = <<>>
  /\ toasts' = << [title |-> "Schedule Deleted"] >>
  /\ UNCHANGED << isListening, recognition, timers, mounted, now, ms, elapsed,
                  tickLog, nav >>

\* lines 168-261: the microphone button.  While listening it only clears
\* isListening; otherwise, permission granted, it starts a recognition
\* session whose handlers close over this render's schedules
toggleListening(granted) ==
  /\ Idle
  /\ IF isListening
     THEN /\ isListening' = FALSE
          /\ spoken' = <<>>
          /\ toasts' = <<>>
          /\ UNCHANGED << recognition, ops >>
     ELSE IF granted
     THEN /\ recognition.phase = "none"
          /\ ops < MaxOps
          /\ ops' = ops + 1
          /\ recognition' = [phase |-> "requested", closure |-> schedules]
          /\ spoken' = <<>>
          /\ toasts' = <<>>
          /\ UNCHANGED isListening
     ELSE /\ spoken' = << [kind |-> "Microphone access was denied"] >>
          /\ toasts' = << [title |-> "Microphone Access Denied"] >>
          /\ UNCHANGED << isListening, recognition, ops >>
  /\ UNCHANGED << schedules, timers, effectPending, mounted, now, ms, elapsed,
                  tickLog, nav >>

\* recognition.onstart
onstart ==
  /\ Idle
  /\ recognition.phase = "requested"
  /\ recognition' = [recognition EXCEPT !.phase = "started"]
  /\ isListening' = TRUE
  /\ spoken' = <<>>
  /\ toasts' = << [title |-> "Listening"] >>
  /\ UNCHANGED << schedules, timers, effectPending, mounted, now, ms, elapsed,
                  ops, tickLog, nav >>

\* recognition.onresult (lines 205-219), followed by onend
onresult(heard) ==
  /\ Idle
  /\ recognition.phase = "started"
  /\ IF heard.command
     THEN /\ schedules' = addSchedule(recognition.closure, now, ms,
                                      heard.parsed.title, heard.parsed.time,
                                      Undefined, heard.parsed.reminderMinutes)
          /\ effectPending' = TRUE
          /\ toasts' = << [title |-> "You said:", description |-> heard.transcript],
                          AddedToast(heard.parsed.title, heard.parsed.time,
                                     heard.parsed.reminderMinutes) >>
          /\ spoken' = << [kind |-> "Schedule added",
                           title |-> heard.parsed.title,
                           time |-> heard.parsed.time,
                           timeFound |-> heard.parsed.timeFound,
                           reminderMinutes |-> heard.parsed.reminderMinutes] >>
     ELSE /\ toasts' = << [title |-> "You said:", description |-> heard.transcript] >>
          /\ spoken' = << [kind |-> "You said", text |-> heard.transcript] >>
          /\ UNCHANGED << schedules, effectPending >>
  /\ isListening' = FALSE
  /\ recognition' = NoRecognition
  /\ UNCHANGED << timers, mounted, now, ms, elapsed, ops, tickLog, nav >>

\* recognition.onerror (lines 221-254), followed by onend
onerror ==
  /\ Idle
  /\ recognition.phase # "none"
  /\ isListening' = FALSE
  /\ recognition' = NoRecognition
  /\ spoken' = << [kind |-> "Could not recognize speech"] >>
  /\ toasts' = << [title |-> "Recognition Error"] >>
  /\ UNCHANGED << schedules, timers, effectPending, mounted, now, ms, elapsed,
                  ops, tickLog, nav >>

\* the page is left: the cleanup of the effect clears its interval and the
\* state of the component is dropped
Unmount ==
  /\ Idle
  /\ mounted' = FALSE
  /\ timers' = ClearOwn(timers)
  /\ schedules' = <<>>
  /\ isListening' = FALSE
  /\ recognition' = NoRecognition
  /\ spoken' = <<>>
  /\ toasts' = <<>>
  /\ UNCHANGED << effectPending, now, ms, elapsed, ops,
                  tickLog, nav >>

Next ==
  \/ EffectRun
  \/ Tick
  \/ Advance
  \/ MsPass
  \/ \E in \in DialogInputs : handleSubmit(in)
  \/ \E id \in IdsOf(schedules) : deleteSchedule(id)
  \/ \E granted \in BOOLEAN : toggleListening(granted)
  \/ onstart
  \/ \E said \in VoiceTranscripts : onresult(HeardVoice[said])
  \/ onerror
  \/ Unmount

Spec == Init /\ [][Next]_vars

\* a step in which checkSchedules runs
CheckStep == Tick \/ EffectRun

(***************************************************************************)
(* checkSchedules on its own: a collection of fresh items and a sequence   *)
(* of calls at clock readings that never go back.                          *)
(***************************************************************************)
\* the items of the collection: a time and the reminderMinutes asked for
ClockItems ==
  { [time |-> <<"1", "4", ":", "0", "0">>, reminderMinutes |-> 5],
    [time |-> <<"1", "4", ":", "0", "0">>, reminderMinutes |-> 10],
    [time |-> <<"1", "3", ":", "5", "6">>, reminderMinutes |-> 1],
    [time |-> <<"1", "4", ":", "0", "1">>, reminderMinutes |-> 2] }

ClockTitle == <<"T", "e", "a">>

\* the clock reading the items were added at, one Date.now() apart
ClockAddedAt == At(0, 13, 50, 0)

ClockSchedules ==
  { addSchedule(<<>>, ClockAddedAt, 0, ClockTitle, a.time, Undefined,
                a.reminderMinutes) : a \in ClockItems }
  \cup
  { addSchedule(addSchedule(<<>>, ClockAddedAt, 0, ClockTitle, a.time,
                            Undefined, a.reminderMinutes),
                ClockAddedAt, 1, ClockTitle, b.time, Undefined,
                b.reminderMinutes) : a \in ClockItems, b \in ClockItems }

\* the clock readings checkSchedules may be called at
TickTimes ==
  { At(0, 13, 54, 0), At(0, 13, 54, 30), At(0, 13, 56, 0), At(0, 13, 59, 30),
    At(0, 14, 0, 0), At(0, 14, 1, 0), At(0, 14, 2, 0), At(1, 13, 56, 0),
    At(1, 14, 0, 0) }

ClockInit ==
  /\ schedules \in ClockSchedules
  /\ isListening = FALSE
  /\ recognition = NoRecognition
  /\ timers = <<>>
  /\ effectPending = TRUE
  /\ mounted = TRUE
  /\ now = At(0, 13, 53, 0)
  /\ ms = 0
  /\ elapsed = 0
  /\ spoken = <<>>
  /\ toasts = <<>>
  /\ ops = 0
  /\ tickLog = <<>>
  /\ NavConstructed

\* checkSchedules runs at clock reading t, whatever called it
ClockStep(t) ==
  /\ t >= now
  /\ Len(tickLog) < MaxTicks
  /\ now' = t
  /\ LET r == checkSchedules(schedules, t)
     IN /\ schedules' = IF r.hasUpdates THEN r.updatedSchedules ELSE schedules
        /\ effectPending' = r.hasUpdates
        /\ spoken' = r.notices
        /\ toasts' = r.notices
        /\ tickLog' = Append(tickLog, [at |-> t, notices |-> r.notices])
  /\ UNCHANGED << isListening, recognition, timers, mounted, ms, elapsed, ops >>

ClockTick(t) == ClockStep(t) /\ UNCHANGED nav

ClockNext == \E t \in TickTimes : ClockTick(t)

SpecClock == ClockInit /\ [][ClockNext]_vars

(***************************************************************************)
(* parseAndAddSchedule on its own: a recognition session is listening and  *)
(* delivers one transcript.                                                *)
(***************************************************************************)
\* the phrases a transcript is put together from
Phrases ==
  { <<"s", "e", "t", " ">>,
    <<"a", "t", " ">>,
    <<"8">>,
    <<"1", "2">>,
    <<"8", ":", "3", "0">>,
    <<"1", "2", ":", "0", "5">>,
    <<" ", "a", "m">>,
    <<"p", "m">>,
    <<" ", "5", " ", "m", "i", "n", "u", "t", "e", "s", " ", "b", "e", "f",
      "o", "r", "e">> }

RECURSIVE Sayings(_)
Sayings(n) ==
  IF n = 0 THEN { <<>> }
  ELSE LET shorter == Sayings(n - 1)
       IN shorter \cup { s \o p : s \in shorter, p \in Phrases }

\* what the recognizer may deliver: up to MaxParts phrases in a row
ParseTranscripts == Sayings(MaxParts) \ { <<>> }

ParseInit ==
  /\ schedules = InitialSchedules
  /\ isListening = TRUE
  /\ recognition = [phase |-> "started", closure |-> InitialSchedules]
  /\ timers = << IntervalSteps >>
  /\ effectPending = FALSE
  /\ mounted = TRUE
  /\ now \in StartTimes
  /\ ms = 0
  /\ elapsed = 0
  /\ spoken = <<>>
  /\ toasts = <<>>
  /\ ops = 1
  /\ tickLog = <<>>
  /\ NavConstructed

ParseNext ==
  \/ \E said \in ParseTranscripts : onresult(Heard(said))
  \/ EffectRun

SpecParse == ParseInit /\ [][ParseNext]_vars

(***************************************************************************)
(* Properties of the page.                                                 *)
(***************************************************************************)
Range(f) == {f[k] : k \in 1..Len(f)}

\* the notice of the given kind for the item at position i is among the notices
Fired(notices, kind, i) ==
  \E n \in Range(notices) : n.kind = kind /\ n.index = i

\* the item with the given id, when exactly one item of the list has it
Only(list, id) == Cardinality({k \in 1..Len(list) : list[k].id = id}) = 1

\* C1: once an item's reminded or notified flag is true it stays true in
\* every later state in which the item (the one item with its id) is still
\* in the collection, whatever step is taken
C1_FlagsStayTrue ==
  [][\A i \in 1..Len(schedules) : \A j \in 1..Len(schedules') :
       (/\ schedules[i].id = schedules'[j].id
        /\ Only(schedules, schedules[i].id)
        /\ Only(schedules', schedules[i].id)) =>
         /\ schedules[i].reminded => schedules'[j].reminded
         /\ schedules[i].notified => schedules'[j].notified]_vars

\* C3: while the page is mounted an item leaves the collection only in a
\* deleteSchedule step for its id, and an id enters the collection only as
\* the id of the item the step creates from the current Date.now()
C3_OnlyAddAndDelete ==
  [][mounted' =>
       /\ \A id \in IdsOf(schedules) \ IdsOf(schedules') : deleteSchedule(id)
       /\ \A id \in IdsOf(schedules') \ IdsOf(schedules) :
            id = NumberToString(DateNow(now, ms))]_vars

\* C4: in a checkSchedules step the item at position i gets the advance
\* notice exactly when reminded is false and 0 < deltaMinutes <= the item's
\* reminderMinutes, and then reminded becomes true and no exact notice fires
C4_AdvanceExactlyWhenDue ==
  [][CheckStep =>
       \A i \in 1..Len(schedules) :
         LET item == schedules[i]
             delta == timeDiffMinutes(item, now)
             due == ~item.reminded /\ 0 < delta /\ delta <= item.reminderMinutes
         IN /\ Fired(spoken', "advance", i) <=> due
            /\ due => schedules'[i].reminded /\ ~Fired(spoken', "exact", i)]_vars

\* C5: in a checkSchedules step the item at position i gets the exact
\* notice exactly when notified is false and -2 < deltaMinutes <= 0, and
\* then notified becomes true
C5_ExactExactlyWhenDue ==
  [][CheckStep =>
       \A i \in 1..Len(schedules) :
         LET item == schedules[i]
             delta == timeDiffMinutes(item, now)
             due == ~item.notified /\ -2 < delta /\ delta <= 0
         IN /\ Fired(spoken', "exact", i) <=> due
            /\ due => schedules'[i].notified]_vars

\* C5 witness: a check has just given the exact notice to an item whose time
\* is the current clock reading, while another item that is two or more
\* minutes past and not notified got none
C5_Witness ==
  /\ \E n \in Range(spoken) :
       /\ n.kind = "exact"
       /\ timeDiffMs(schedules[n.index], now) = 0
  /\ \E i \in 1..Len(schedules) :
       /\ ~schedules[i].notified
       /\ timeDiffMinutes(schedules[i], now) <= -2

\* no handler is due: the effect has run and no interval has come round
Quiet == Idle /\ \A k \in 1..Len(timers) : timers[k] > 0

\* C7: while the page is mounted no item passes through the window of the
\* exact notice unnoticed: whenever no handler is due, every item whose time
\* is at most one polling interval ahead and at most one minute past has
\* received its exact notice
C7_ExactNotMissed ==
  Quiet =>
    \A i \in 1..Len(schedules) :
      (/\ timeDiffMs(schedules[i], now) <= MinuteMs - IntervalMs
       /\ timeDiffMs(schedules[i], now) >= -MinuteMs)
        => schedules[i].notified

\* C7 witness: the page polled through the whole window of an item: the
\* item is one minute past, notified, and the interval was restarted by a
\* schedule change on the way
C7_Witness ==
  /\ Quiet
  /\ IdsOf(schedules) # IdsOf(InitialSchedules)
  /\ \E i \in 1..Len(schedules) :
       /\ timeDiffMs(schedules[i], now) = -MinuteMs
       /\ schedules[i].notified

\* C8: in a checkSchedules step every item that is due at the clock reading
\* of the step emits its notice and has its flag set in that step
C8_AllDueFire ==
  [][CheckStep =>
       \A i \in 1..Len(schedules) :
         LET item == schedules[i]
             delta == timeDiffMinutes(item, now)
         IN /\ (~item.reminded /\ 0 < delta /\ delta <= item.reminderMinutes)
                 => Fired(spoken', "advance", i) /\ schedules'[i].reminded
            /\ (~item.notified /\ -2 < delta /\ delta <= 0)
                 => Fired(spoken', "exact", i) /\ schedules'[i].notified]_vars

\* C8 witness: one check has just given notices to two items
C8_Witness ==
  \E m, n \in Range(spoken) :
    /\ m.kind \in {"advance", "exact"}
    /\ n.kind \in {"advance", "exact"}
    /\ m.index # n.index
    /\ schedules[m.index].notified \/ schedules[m.index].reminded
    /\ schedules[n.index].notified \/ schedules[n.index].reminded

(***************************************************************************)
(* Properties of checkSchedules on its own.                                *)
(***************************************************************************)
\* how many notices of the given kind the calls so far gave the item at
\* position i
RECURSIVE NoticeCount(_, _, _)
NoticeCount(log, kind, i) ==
  IF log = <<>> THEN 0
  ELSE Cardinality({k \in 1..Len(Head(log).notices) :
                      /\ Head(log).notices[k].kind = kind
                      /\ Head(log).notices[k].index = i})
       + NoticeCount(Tail(log), kind, i)

\* C2: over any sequence of checkSchedules calls at clock readings that
\* never go back, every item gets at most one advance notice and at most
\* one exact notice
C2_AtMostOnce ==
  \A i \in 1..Len(schedules) :
    /\ NoticeCount(tickLog, "advance", i) <= 1
    /\ NoticeCount(tickLog, "exact", i) <= 1

\* C2 witness: an item got both notices and checkSchedules was called
\* again after the second one
C2_Witness ==
  \E i \in 1..Len(schedules) :
    /\ NoticeCount(tickLog, "advance", i) = 1
    /\ NoticeCount(tickLog, "exact", i) = 1
    /\ tickLog[Len(tickLog)].notices = <<>>
    /\ Len(tickLog) >= 3

\* the clock readings of the scenario and the kinds of notice it expects
ScenarioTimes ==
  << At(0, 13, 54, 0), At(0, 13, 56, 0), At(0, 14, 0, 0), At(0, 14, 1, 0) >>
ScenarioKinds == << {}, {"advance"}, {"exact"}, {} >>

\* the calls so far are the first calls of the scenario
OnScenario(k) ==
  /\ k <= Len(tickLog)
  /\ \A j \in 1..k : tickLog[j].at = ScenarioTimes[j]

ScenarioItem(i) ==
  /\ schedules[i].time = <<"1", "4", ":", "0", "0">>
  /\ schedules[i].reminderMinutes = 5

\* C6: an item with time 14:00 and lead 5, checked at 13:54, 13:56, 14:00
\* and 14:01, gets nothing, the advance notice, the exact notice, nothing
C6_Scenario ==
  \A i \in 1..Len(schedules) : \A k \in 1..Len(ScenarioTimes) :
    (ScenarioItem(i) /\ OnScenario(k)) =>
      {n.kind : n \in {m \in Range(tickLog[k].notices) : m.index = i}}
        = ScenarioKinds[k]

\* C6 witness: the four calls of the scenario were made on such an item
C6_Witness ==
  /\ OnScenario(Len(ScenarioTimes))
  /\ \E i \in 1..Len(schedules) :
       ScenarioItem(i) /\ schedules[i].reminded /\ schedules[i].notified

(***************************************************************************)
(* Properties of parseAndAddSchedule.                                      *)
(***************************************************************************)
\* the last handler was an onresult that took its transcript for a command
\* and added an item
VoiceAdded ==
  /\ Len(toasts) = 2
  /\ toasts[1].title = "You said:"
  /\ schedules # <<>>

TranscriptOf(t) == t[1].description
AddedItem == schedules[Len(schedules)]

\* the text the first matching time pattern matched, <<>> when none matched
MatchedTime(transcript) ==
  LET match == FirstMatch(timePatterns(transcript))
  IN IF match = Null THEN <<>> ELSE match[1]

\* the am or pm the matched text ends with, <<>> when it ends otherwise
SuffixOf(text) ==
  IF Len(text) >= 2 /\ Sub(text, Len(text) - 1, Len(text)) \in
                         { <<"a", "m">>, <<"p", "m">> }
  THEN Sub(text, Len(text) - 1, Len(text))
  ELSE <<>>

\* the hour the matched text starts with, or follows its "at" with
HourOf(text) ==
  LET h == IF HasAt(text, 1, <<"a", "t">>) THEN SkipSpaces(text, 3) ELSE 1
  IN DigitsValue(Sub(text, h, SkipDigits(text, h) - 1), 0)

\* C9: when the time of the transcript is matched with an am or pm suffix,
\* the hour of the item is the 24-hour form of the matched hour: pm and
\* hour < 12 adds 12, am and hour 12 gives 0
C9_HourNormalized ==
  VoiceAdded =>
    LET text == MatchedTime(TranscriptOf(toasts))
        hour == HourOf(text)
        expected == IF SuffixOf(text) = <<"p", "m">> /\ hour < 12 THEN hour + 12
                    ELSE IF SuffixOf(text) = <<"a", "m">> /\ hour = 12 THEN 0
                    ELSE hour
    IN SuffixOf(text) # <<>> =>
         Sub(AddedItem.time, 1, 2) = padStart2(NumberToString(expected))

\* C10: when none of the three time patterns matches the transcript, the
\* parser reports timeFound false and the item has time 09:00
C10_DefaultTime ==
  VoiceAdded =>
    (MatchedTime(TranscriptOf(toasts)) = <<>> =>
       /\ spoken[1].timeFound = FALSE
       /\ AddedItem.time = <<"0", "9", ":", "0", "0">>)

\* C10 witness: a transcript without a digit was taken for a command and
\* its item was added
C10_Witness ==
  /\ VoiceAdded
  /\ \A k \in 1..Len(TranscriptOf(toasts)) : TranscriptOf(toasts)[k] \notin Digits
  /\ AddedItem.time = <<"0", "9", ":", "0", "0">>
  /\ AddedItem.id \notin IdsOf(InitialSchedules)

\* the text is a zero-padded HH:MM time of day: two digits, a colon, two
\* digits, the hour below 24 and the minute below 60
IsTimeOfDay(time) ==
  /\ Len(time) = 5
  /\ DigitsAt(time, 1, 2)
  /\ time[3] = ":"
  /\ DigitsAt(time, 4, 2)
  /\ DigitsValue(Sub(time, 1, 2), 0) < 24
  /\ DigitsValue(Sub(time, 4, 5), 0) < 60

\* C11: for every transcript, the time stored on the item created by voice
\* parse is a zero-padded HH:MM time of day with hour 00..23 and minute
\* 00..59
C11_TimeOfDay == VoiceAdded => IsTimeOfDay(AddedItem.time)

\* the stopword phrases the title is to be free of
Stopwords ==
  { <<"a", "d", "d", " ", "s", "c", "h", "e", "d", "u", "l", "e">>,
    <<"s", "c", "h", "e", "d", "u", "l", "e">>,
    <<"r", "e", "m", "i", "n", "d", " ", "m", "e", " ", "t", "o">>,
    <<"r", "e", "m", "i", "n", "d", " ", "m", "e">>,
    <<"s", "e", "t", " ", "r", "e", "m", "i", "n", "d", "e", "r", " ", "f",
      "o", "r">>,
    <<"s", "e", "t", " ", "r", "e", "m", "i", "n", "d", "e", "r">> }

\* the text the first matching reminder pattern matched, <<>> when none did
MatchedLead(transcript) ==
  LET found == reminderPatterns(transcript)
  IN IF found[1] # Null THEN found[1][1]
     ELSE IF found[2] # Null THEN found[2][1]
     ELSE <<>>

\* the words of a lead phrase: its text from "minute" on
LeadWords(text) ==
  LET IsMinute(i) == HasAt(text, i, <<"m", "i", "n", "u", "t", "e">>)
  IN Sub(text, FirstPos(text, IsMinute), Len(text))

\* C12: the title of the item created by voice parse holds no stopword
\* phrase, no matched time phrase and no matched reminder-lead phrase, is
\* trimmed and starts with a capital
C12_TitleStripped ==
  (VoiceAdded /\ AddedItem.title # NewReminder) =>
    LET transcript == TranscriptOf(toasts)
        title == AddedItem.title
        lower == toLowerCase(title)
    IN /\ \A w \in Stopwords : ~includes(lower, w)
       /\ MatchedTime(transcript) # <<>>
            => ~includes(lower, trim(MatchedTime(transcript)))
       /\ MatchedLead(transcript) # <<>>
            => ~includes(lower, LeadWords(MatchedLead(transcript)))
       /\ title = trim(title)
       /\ title[1] = UpperChar(title[1])

\* C19: every item of the collection has an id distinct from every other
\* item's id, whatever dialog adds, voice adds and deletes came before
C19_IdsDistinct ==
  \A i, j \in 1..Len(schedules) :
    i # j => schedules[i].id # schedules[j].id


(***************************************************************************)
(* The navigation page (src/unnamed/part_001).  Positions are metres along  *)
(* one meridian, so the great-circle distance of two positions is the       *)
(* difference of their readings.  The map is ready and the position is      *)
(* tracked, and the watch effect has re-subscribed before the next event    *)
(* is handled.                                                              *)
(***************************************************************************)
MaxRoutes == 2

NearMeters == 30
PreMeters == 50
PreviewDelayMs == 3000
ArrivalDelayMs == 2000
ShortlyMeters == 100

\* lines 319-324: a step of the response, not announced yet
RouteStep_Announced(instruction, distance, location) ==
  [instruction |-> instruction, distance |-> distance, location |-> location,
   announced |-> TRUE]
RouteStep(instruction, distance, location) ==
  [instruction |-> instruction, distance |-> distance, location |-> location,
   announced |-> FALSE]

\* the routes the directions service may answer with
Routes ==
  { << RouteStep("Head north", 140, 0), RouteStep("You have arrived", 0, 140) >>,
    << RouteStep("Head east", 60, 0), RouteStep("Turn left", 120, 60),
       RouteStep("You have arrived", 0, 180) >> }

\* the positions the geolocation watch may report
Positions == { 0, 30, 40, 60, 90, 140, 180, 400 }

\* lines 127-178: the position getCurrentLocation found
StartLocation == 400

\* lines 50-66
getDistanceBetweenPoints(coord1, coord2) ==
  IF coord1 >= coord2 THEN coord1 - coord2 ELSE coord2 - coord1

\* routeSteps[i] of the code, whose indexes start at 0
HasStep(steps, i) == (i + 1) \in DOMAIN steps
StepAt(steps, i) == steps[i + 1]

\* lines 39-47: speak as created by a render whose voiceEnabled is enabled:
\* the queue of speechSynthesis after speak(utterance)
NavSpeak(queue, enabled, utterance) ==
  IF enabled THEN << utterance >> ELSE queue

\* the utterances of the page
InstructionText(step) == [kind |-> "instruction", text |-> step.instruction]
PreAnnouncement_NoDistance(step, meters) ==
  [kind |-> "approaching", meters |-> 0, text |-> step.instruction]
PreAnnouncement(step, meters) ==
  [kind |-> "approaching", meters |-> meters, text |-> step.instruction]
UpcomingText(nextStep) ==
  [kind |-> "upcoming",
   distanceText |-> IF nextStep.distance > ShortlyMeters
                    THEN << "In", nextStep.distance, "meters" >>
                    ELSE << "Shortly" >>,
   text |-> nextStep.instruction]
ArrivedText == [kind |-> "You have arrived at your destination."]
StoppedText == [kind |-> "Navigation stopped."]
StartingText(steps) ==
  [kind |-> "Starting navigation.",
   text |-> IF steps = <<>> THEN "" ELSE steps[1].instruction]
DestinationText == [kind |-> "Destination set"]
NotFoundText == [kind |-> "Could not find that location. Please try again."]

\* lines 86-90: the updater passed to setRouteSteps
MarkAnnounced_Never(prev, index) == prev
MarkAnnounced(prev, index) ==
  [idx \in DOMAIN prev |->
     IF idx = index + 1 THEN [prev[idx] EXCEPT !.announced = TRUE] ELSE prev[idx]]

\* line 94: the updater passed to setCurrentStepIndex
NextIndex_Skip(prev) == prev + 2
NextIndex_Stay(prev) == prev
NextIndex(prev) == prev + 1

\* lines 99-104 and 108-115: the callbacks handed to setTimeout, with the
\* voiceEnabled of the speak they closed over
PreviewTimeout(nextStep, voice) ==
  [delay |-> PreviewDelayMs, arrival |-> FALSE, say |-> UpcomingText(nextStep),
   voice |-> voice]
ArrivalTimeout(voice) ==
  [delay |-> ArrivalDelayMs, arrival |-> TRUE, say |-> ArrivedText,
   voice |-> voice]

\* the render the callbacks of the page closed over
Render ==
  [isNavigating |-> isNavigating, routeSteps |-> routeSteps,
   currentStepIndex |-> currentStepIndex, voiceEnabled |-> voiceEnabled]

\* line 71: the test of the first early return
Inactive_IgnoresVoice(r) == ~r.isNavigating \/ Len(r.routeSteps) = 0
Inactive(r) == ~r.isNavigating \/ Len(r.routeSteps) = 0 \/ ~r.voiceEnabled

Nothing == [say |-> <<>>, near |-> FALSE, advance |-> FALSE, timeout |-> <<>>]

\* lines 69-124: what one call does: the utterances passed to speak, whether
\* the 30 m branch ran, whether the index moves on, the callbacks scheduled
checkAndAnnounceDirection(r, currentLocation) ==
  IF Inactive(r) THEN Nothing
  ELSE IF ~HasStep(r.routeSteps, r.currentStepIndex) THEN Nothing
  ELSE LET currentStep == StepAt(r.routeSteps, r.currentStepIndex)
           distanceToNextTurn ==
             getDistanceBetweenPoints(currentLocation, currentStep.location)
       IN IF currentStep.announced THEN Nothing
          ELSE IF distanceToNextTurn < NearMeters
          THEN IF r.currentStepIndex < Len(r.routeSteps) - 1
               THEN [say |-> << InstructionText(currentStep) >>,
                     near |-> TRUE, advance |-> TRUE,
                     timeout |->
                       IF HasStep(r.routeSteps, r.currentStepIndex + 1)
                       THEN << PreviewTimeout(
                                 StepAt(r.routeSteps, r.currentStepIndex + 1),
                                 r.voiceEnabled) >>
                       ELSE <<>>]
               ELSE [say |-> << InstructionText(currentStep) >>,
                     near |-> TRUE, advance |-> FALSE,
                     timeout |-> << ArrivalTimeout(r.voiceEnabled) >>]
          ELSE IF distanceToNextTurn < PreMeters /\ ~currentStep.announced
          THEN [say |-> << PreAnnouncement(currentStep, distanceToNextTurn) >>,
                near |-> FALSE, advance |-> FALSE, timeout |-> <<>>]
          ELSE Nothing

\* what reaches speechSynthesis when a handler passes the utterances of
\* said, one after the other, to a speak whose voiceEnabled is voice
RECURSIVE SpeakAll(_, _, _)
SpeakAll(queue, voice, said) ==
  IF said = <<>> THEN queue
  ELSE SpeakAll(NavSpeak(queue, voice, Head(said)), voice, Tail(said))

NavInit ==
  /\ schedules = <<>>
  /\ isListening = FALSE
  /\ recognition = NoRecognition
  /\ timers = <<>>
  /\ effectPending = FALSE
  /\ mounted = FALSE
  /\ now \in StartTimes
  /\ ms = 0
  /\ elapsed = 0
  /\ spoken = <<>>
  /\ toasts = <<>>
  /\ ops = 0
  /\ tickLog = <<>>
  /\ routeSteps = <<>>
  /\ currentStepIndex = 0
  /\ isNavigating = FALSE
  /\ voiceEnabled = TRUE
  /\ requests = <<>>
  /\ timeouts = <<>>
  /\ announcedLog = <<>>
  /\ synth = <<>>
  /\ userLocation = StartLocation

\* lines 181-216: the watch callback of the current render gets a position
PositionUpdate(p) ==
  LET r == IF isNavigating THEN checkAndAnnounceDirection(Render, p) ELSE Nothing
  IN /\ spoken' = SpeakAll(<<>>, voiceEnabled, r.say)
     /\ toasts' = <<>>
     /\ userLocation' = p
     /\ routeSteps' = IF r.near THEN MarkAnnounced(routeSteps, currentStepIndex)
                      ELSE routeSteps
     /\ currentStepIndex' = IF r.advance THEN NextIndex(currentStepIndex)
                            ELSE currentStepIndex
     /\ timeouts' = timeouts \o r.timeout
     /\ announcedLog' = IF r.near THEN Append(announcedLog, currentStepIndex)
                        ELSE announcedLog
     /\ UNCHANGED << isNavigating, voiceEnabled, requests, synth, ops, page >>

\* lines 219-226: a destination is searched for; the fetch is in flight
searchDestination ==
  /\ ops < MaxRoutes
  /\ ops' = ops + 1
  /\ requests' = Append(requests, [phase |-> "geocoding", voice |-> voiceEnabled])
  /\ spoken' = <<>>
  /\ toasts' = <<>>
  /\ UNCHANGED << routeSteps, currentStepIndex, isNavigating, voiceEnabled,
                  timeouts, announcedLog, synth, userLocation, page >>

Without(list, i) == SubSeq(list, 1, i - 1) \o SubSeq(list, i + 1, Len(list))

\* lines 226-263: the geocoding answer arrives; with a place found the
\* directions are fetched (lines 275-280)
geocoded(i, found) ==
  /\ requests[i].phase = "geocoding"
  /\ IF found
     THEN /\ spoken' = NavSpeak(<<>>, requests[i].voice, DestinationText)
          /\ toasts' = << [title |-> "Destination Found"] >>
          /\ requests' = [requests EXCEPT ![i].phase = "directions"]
     ELSE /\ spoken' = NavSpeak(<<>>, requests[i].voice, NotFoundText)
          /\ toasts' = << [title |-> "Not Found"] >>
          /\ requests' = Without(requests, i)
  /\ UNCHANGED << routeSteps, currentStepIndex, isNavigating, voiceEnabled,
                  timeouts, announcedLog, synth, userLocation, ops, page >>

\* lines 280-349: the directions answer arrives with a route
getDirections(i, route) ==
  /\ requests[i].phase = "directions"
  /\ routeSteps' = route
  /\ currentStepIndex' = 0
  /\ isNavigating' = TRUE
  /\ spoken' = NavSpeak(<<>>, requests[i].voice, StartingText(route))
  /\ toasts' = << [title |-> "Navigation Started"] >>
  /\ requests' = Without(requests, i)
  /\ announcedLog' = <<>>
  /\ UNCHANGED << voiceEnabled, timeouts, synth, userLocation, ops, page >>

\* what setRouteSteps gets in stopNavigation
StoppedSteps_Kept(steps) == steps
StoppedSteps(steps) == <<>>

\* lines 356-365, behind the buttons shown while isNavigating
stopNavigation ==
  /\ isNavigating
  /\ isNavigating' = FALSE
  /\ routeSteps' = StoppedSteps(routeSteps)
  /\ currentStepIndex' = 0
  /\ spoken' = NavSpeak(<<>>, voiceEnabled, StoppedText)
  /\ toasts' = << [title |-> "Navigation Stopped"] >>
  /\ UNCHANGED << voiceEnabled, requests, timeouts, announcedLog, synth,
                  userLocation, ops, page >>

\* lines 616-624 and 639-647: the voice buttons
toggleVoice ==
  /\ voiceEnabled' = ~voiceEnabled
  /\ spoken' = <<>>
  /\ toasts' = <<>>
  /\ UNCHANGED << routeSteps, currentStepIndex, isNavigating, requests,
                  timeouts, announcedLog, synth, userLocation, ops, page >>

\* what setIsNavigating gets in the arrival callback
Arrived_Still(navigating) == navigating
Arrived(navigating) == FALSE

\* a callback handed to setTimeout runs; callbacks of one delay run in the
\* order they were scheduled in
TimeoutFires(i) ==
  /\ i \in DOMAIN timeouts
  /\ \A j \in 1..(i - 1) : timeouts[j].delay # timeouts[i].delay
  /\ timeouts' = Without(timeouts, i)
  /\ spoken' = NavSpeak(<<>>, timeouts[i].voice, timeouts[i].say)
  /\ IF timeouts[i].arrival
     THEN /\ isNavigating' = Arrived(isNavigating)
          /\ toasts' = << [title |-> "Arrived!"] >>
     ELSE /\ toasts' = <<>>
          /\ UNCHANGED isNavigating
  /\ UNCHANGED << routeSteps, currentStepIndex, voiceEnabled, requests,
                  announcedLog, synth, userLocation, ops, page >>

AnyTimeoutFires == \E i \in DOMAIN timeouts : TimeoutFires(i)

NavNext ==
  \/ \E p \in Positions : PositionUpdate(p)
  \/ searchDestination
  \/ \E i \in DOMAIN requests : \E found \in BOOLEAN : geocoded(i, found)
  \/ \E i \in DOMAIN requests : \E route \in Routes : getDirections(i, route)
  \/ stopNavigation
  \/ toggleVoice
  \/ AnyTimeoutFires

SpecNav == NavInit /\ [][NavNext]_vars

\* the timer of a scheduled callback runs out
SpecNavFair == SpecNav /\ WF_vars(AnyTimeoutFires)

(***************************************************************************)
(* Properties of the navigation page.                                      *)
(***************************************************************************)
\* the current step exists and the position p is exactly its location
AtCurrentStep(p) ==
  /\ HasStep(routeSteps, currentStepIndex)
  /\ p = StepAt(routeSteps, currentStepIndex).location

IsLastStep == currentStepIndex = Len(routeSteps) - 1

\* the step at index i of the next state is marked announced
MarkedNext(i) == HasStep(routeSteps', i) /\ StepAt(routeSteps', i).announced

\* C13 as stated: while navigating with voice enabled, a position update
\* exactly at the current step's location speaks the step's instruction,
\* marks the step announced, and moves the index on by one when more steps
\* exist or, at the last step, makes isNavigating false
C13_AtStepLocation_Stated ==
  [][\A p \in Positions :
       (isNavigating /\ voiceEnabled /\ AtCurrentStep(p) /\ PositionUpdate(p)) =>
         /\ spoken' = << InstructionText(StepAt(routeSteps, currentStepIndex)) >>
         /\ MarkedNext(currentStepIndex)
         /\ IF IsLastStep THEN ~isNavigating'
            ELSE currentStepIndex' = currentStepIndex + 1]_vars

\* C13: while navigating with voice enabled, a position update exactly at
\* the location of the current step, the step not announced yet, speaks the
\* step's instruction and marks the step announced; when more steps exist
\* the index moves on by exactly one, and at the last step the index stays,
\* isNavigating stays true and the arrival callback is scheduled
C13_AtStepLocation ==
  [][\A p \in Positions :
       ( /\ isNavigating /\ voiceEnabled /\ AtCurrentStep(p)
         /\ ~StepAt(routeSteps, currentStepIndex).announced
         /\ PositionUpdate(p) ) =>
         /\ spoken' = << InstructionText(StepAt(routeSteps, currentStepIndex)) >>
         /\ MarkedNext(currentStepIndex)
         /\ IF IsLastStep
            THEN /\ currentStepIndex' = currentStepIndex
                 /\ isNavigating'
                 /\ timeouts' = Append(timeouts, ArrivalTimeout(TRUE))
            ELSE currentStepIndex' = currentStepIndex + 1]_vars

\* the last step has just been announced and the page is still navigating
C13_Witness ==
  /\ isNavigating
  /\ routeSteps # <<>>
  /\ IsLastStep
  /\ StepAt(routeSteps, currentStepIndex).announced
  /\ spoken = << InstructionText(StepAt(routeSteps, currentStepIndex)) >>

\* C14: within one navigation session no step is announced twice by the
\* 30 m rule, whatever positions the watch callback delivers: the indexes
\* announced since the route was set are all different
C14_AnnouncedOnce ==
  \A i, j \in DOMAIN announcedLog :
    i # j => announcedLog[i] # announcedLog[j]

\* the last step was announced, and a further update at its location, with
\* the page still navigating and voice enabled, spoke nothing
C14_Witness ==
  /\ isNavigating
  /\ voiceEnabled
  /\ AtCurrentStep(userLocation)
  /\ StepAt(routeSteps, currentStepIndex).announced
  /\ currentStepIndex \in Range(announcedLog)
  /\ spoken = <<>>
  /\ toasts = <<>>

\* navigation is stopped and no new route has been set
Stopped == ~isNavigating /\ routeSteps = <<>>

\* C15: a deferred callback (next-step preview or arrival message) that
\* runs after stopNavigation and before a new route is set speaks nothing
C15_SilentAfterStop ==
  [][(Stopped /\ AnyTimeoutFires) => spoken' = <<>>]_vars

\* C16: a deferred announcement (next-step preview or arrival message) that
\* runs while voice is toggled off, which can only have happened after it
\* was scheduled, is not spoken
C16_SilentWhenMuted ==
  [][(~voiceEnabled /\ AnyTimeoutFires) => spoken' = <<>>]_vars

\* a step in which the directions answer sets a route
RouteSet == \E i \in DOMAIN requests : \E route \in Routes : getDirections(i, route)

\* C17: stopNavigation leaves routeSteps empty, currentStepIndex 0 and
\* isNavigating false; the page then stays stopped until getDirections sets
\* a route, and while it is stopped a position update speaks nothing, marks
\* nothing and schedules nothing
C17_StopSilences ==
  [][/\ stopNavigation =>
          (routeSteps' = <<>> /\ currentStepIndex' = 0 /\ ~isNavigating')
     /\ (Stopped /\ ~Stopped') => RouteSet
     /\ \A p \in Positions :
          (Stopped /\ PositionUpdate(p)) =>
            /\ spoken' = <<>>
            /\ UNCHANGED << routeSteps, currentStepIndex, isNavigating,
                            timeouts, announcedLog >>]_vars

\* a route was followed and stopped, and the position last delivered is
\* one where a step of a route lies
C17_Witness ==
  /\ Stopped
  /\ announcedLog # <<>>
  /\ voiceEnabled
  /\ userLocation = 140
  /\ spoken = <<>>

\* the arrival callback of an announced last step has not run yet
ArrivalPending == \E i \in DOMAIN timeouts : timeouts[i].arrival

\* a step in which an arrival callback runs
ArrivalFires == \E i \in DOMAIN timeouts : timeouts[i].arrival /\ TimeoutFires(i)

\* C20: once the last step is announced its arrival callback is pending;
\* when the callback runs the arrival message is spoken and isNavigating
\* is false afterwards, and with the timer running out isNavigating
\* eventually becomes false
C20_ArrivalEndsNavigation ==
  /\ [][\A p \in Positions :
          ( /\ PositionUpdate(p)
            /\ Len(announcedLog') > Len(announcedLog)
            /\ IsLastStep ) => ArrivalPending']_vars
  /\ [][ArrivalFires => (spoken' = << ArrivedText >> /\ ~isNavigating')]_vars
  /\ (ArrivalPending ~> ~isNavigating)

\* the arrival callback has just run
C20_Witness ==
  /\ spoken = << ArrivedText >>
  /\ toasts = << [title |-> "Arrived!"] >>
  /\ ~isNavigating
  /\ routeSteps # <<>>
  /\ StepAt(routeSteps, Len(routeSteps) - 1).announced

(***************************************************************************)
(* window.speechSynthesis, which the pages share: speak requests of the    *)
(* schedule page's checkSchedules, of the navigation page and of the       *)
(* object detection, and utterances coming to their end.                   *)
(***************************************************************************)
\* Index.tsx lines 42-49: the queue of speechSynthesis after speak(utterance)
IndexSpeak(queue, utterance) == Append(queue, utterance)

\* AddScheduleDialog.tsx lines 107-116 (ObjectDetection)
DetectSpeak(queue, utterance) == << utterance >>

\* what ObjectDetection announces
Announcements ==
  { [kind |-> "Camera activated. Point at objects to detect them."],
    [kind |-> "Camera deactivated"] }

\* checkSchedules passes its notices to the schedule page's speak in turn
RECURSIVE IndexSpeakAll(_, _)
IndexSpeakAll(queue, said) ==
  IF said = <<>> THEN queue
  ELSE IndexSpeakAll(IndexSpeak(queue, Head(said)), Tail(said))

SpeechRest == << routeSteps, currentStepIndex, isNavigating, requests,
                 timeouts, announcedLog, userLocation >>

MaxSpeechTicks == 2

\* the collections with two items for the same time of day
SpeechSchedules ==
  { list \in ClockSchedules : Len(list) = 2 /\ list[1].time = list[2].time }

SpeechInit == ClockInit /\ schedules \in SpeechSchedules

SpeechTick(t) ==
  /\ Len(tickLog) < MaxSpeechTicks
  /\ ClockStep(t)
  /\ synth' = IndexSpeakAll(synth, checkSchedules(schedules, t).notices)
  /\ UNCHANGED << voiceEnabled, SpeechRest >>

\* the navigation page asks for an utterance
NavSay ==
  /\ synth' = NavSpeak(synth, voiceEnabled, StoppedText)
  /\ spoken' = NavSpeak(<<>>, voiceEnabled, StoppedText)
  /\ toasts' = <<>>
  /\ UNCHANGED << voiceEnabled, SpeechRest, ops, page >>

\* the object detection asks for an utterance
DetectSay(utterance) ==
  /\ synth' = DetectSpeak(synth, utterance)
  /\ spoken' = << utterance >>
  /\ toasts' = <<>>
  /\ UNCHANGED << voiceEnabled, SpeechRest, ops, page >>

\* the voice button of the navigation page
SpeechVoice ==
  /\ voiceEnabled' = ~voiceEnabled
  /\ spoken' = <<>>
  /\ toasts' = <<>>
  /\ UNCHANGED << synth, SpeechRest, ops, page >>

\* the utterance being spoken comes to its end; the next one starts
UtteranceEnd ==
  /\ synth # <<>>
  /\ synth' = Tail(synth)
  /\ spoken' = <<>>
  /\ toasts' = <<>>
  /\ UNCHANGED << voiceEnabled, SpeechRest, ops, page >>

SpeechNext ==
  \/ \E t \in TickTimes : SpeechTick(t)
  \/ NavSay
  \/ \E utterance \in Announcements : DetectSay(utterance)
  \/ SpeechVoice
  \/ UtteranceEnd

SpecSpeech == SpeechInit /\ [][SpeechNext]_vars

\* C18: every speak request cancels what is being spoken or queued, so
\* speechSynthesis never holds more than one utterance, whichever page's
\* speak is called
C18_OneUtterance == Len(synth) <= 1

\* C21: when getDirections sets a route, the steps are those of the answer,
\* each with announced false, currentStepIndex is 0 and isNavigating is
\* true, whatever the steps, flags and index were before
C21_RouteReplaced ==
  [][\A i \in DOMAIN requests : \A route \in Routes :
       getDirections(i, route) =>
         /\ Len(routeSteps') = Len(route)
         /\ \A k \in DOMAIN route :
              /\ routeSteps'[k].instruction = route[k].instruction
              /\ routeSteps'[k].distance = route[k].distance
              /\ routeSteps'[k].location = route[k].location
              /\ ~routeSteps'[k].announced
         /\ currentStepIndex' = 0
         /\ isNavigating']_vars

\* a route has just been set while a callback scheduled by an announcement
\* of the previous route is still pending
C21_Witness ==
  /\ spoken = << StartingText(routeSteps) >>
  /\ toasts = << [title |-> "Navigation Started"] >>
  /\ timeouts # <<>>
  /\ isNavigating
  /\ currentStepIndex = 0
  /\ \A k \in DOMAIN routeSteps : ~routeSteps[k].announced

\* the notices of one checkSchedules call that are about the item at
\* position i
NoticesOf(notices, i) == SelectSeq(notices, LAMBDA n : n.index = i)

\* C22: a checkSchedules call in which no notice is emitted leaves the
\* collection unwritten; otherwise exactly the items a notice is emitted
\* for change, each in its reminded field (advance notice) or its notified
\* field (exact notice) only, from false to true
C22_OnlyFlagsChange ==
  [][/\ Len(schedules') = Len(schedules)
     /\ spoken' = <<>> => (schedules' = schedules /\ ~effectPending')
     /\ spoken' # <<>> => effectPending'
     /\ \A i \in DOMAIN schedules :
          LET mine == NoticesOf(spoken', i)
          IN IF mine = <<>> THEN schedules'[i] = schedules[i]
             ELSE /\ Len(mine) = 1
                  /\ IF mine[1].kind = "advance"
                     THEN /\ ~schedules[i].reminded
                          /\ schedules'[i] = [schedules[i] EXCEPT !.reminded = TRUE]
                     ELSE /\ ~schedules[i].notified
                          /\ schedules'[i] = [schedules[i] EXCEPT !.notified = TRUE]]_vars

\* a call has just emitted a notice for one of two items and none for the
\* other
C22_Witness ==
  /\ tickLog # <<>>
  /\ Len(schedules) = 2
  /\ Len(spoken) = 1
  /\ spoken[1].index = 2
  /\ ~schedules[1].reminded
  /\ ~schedules[1].notified

\* the distance of position p to the current step
DistanceToStep(p) ==
  getDistanceBetweenPoints(p, StepAt(routeSteps, currentStepIndex).location)

\* C23: while navigating with voice enabled, a position update at a
\* distance d, 30 <= d < 50, to the current step, the step not announced,
\* speaks the pre-announcement with d and the step's instruction and
\* leaves currentStepIndex, the steps with their announced flags,
\* isNavigating and the scheduled callbacks as they are
C23_PreAnnouncement ==
  [][\A p \in Positions :
       ( /\ isNavigating /\ voiceEnabled
         /\ HasStep(routeSteps, currentStepIndex)
         /\ ~StepAt(routeSteps, currentStepIndex).announced
         /\ 30 <= DistanceToStep(p) /\ DistanceToStep(p) < 50
         /\ PositionUpdate(p) ) =>
         /\ spoken' = << [kind |-> "approaching", meters |-> DistanceToStep(p),
                          text |-> StepAt(routeSteps, currentStepIndex).instruction] >>
         /\ UNCHANGED << routeSteps, currentStepIndex, isNavigating, timeouts,
                         announcedLog >>]_vars

\* a pre-announcement at exactly 30 m has just been spoken
C23_Witness ==
  /\ isNavigating
  /\ HasStep(routeSteps, currentStepIndex)
  /\ ~StepAt(routeSteps, currentStepIndex).announced
  /\ DistanceToStep(userLocation) = 30
  /\ spoken = << PreAnnouncement(StepAt(routeSteps, currentStepIndex), 30) >>

(***************************************************************************)
(* checkAndAnnounceDirection on its own: the watch callback of a render    *)
(* with any steps, flags, index, isNavigating and voiceEnabled gets        *)
(* positions.                                                              *)
(***************************************************************************)
MaxIndex == 3

\* the steps of a render: none, or those of a route with any flags
AnnounceSteps ==
  { <<>> } \cup
  { [k \in DOMAIN route |-> [route[k] EXCEPT !.announced = flags[k]]] :
      route \in Routes, flags \in [1..3 -> BOOLEAN] }

AnnounceInit ==
  /\ schedules = <<>>
  /\ isListening = FALSE
  /\ recognition = NoRecognition
  /\ timers = <<>>
  /\ effectPending = FALSE
  /\ mounted = FALSE
  /\ now \in StartTimes
  /\ ms = 0
  /\ elapsed = 0
  /\ spoken = <<>>
  /\ toasts = <<>>
  /\ ops = 0
  /\ tickLog = <<>>
  /\ routeSteps \in AnnounceSteps
  /\ currentStepIndex \in 0..MaxIndex
  /\ isNavigating \in BOOLEAN
  /\ voiceEnabled \in BOOLEAN
  /\ requests = <<>>
  /\ timeouts = <<>>
  /\ announcedLog = <<>>
  /\ synth = <<>>
  /\ userLocation = NoLocation

AnnounceNext == \E p \in Positions : PositionUpdate(p)

SpecAnnounce == AnnounceInit /\ [][AnnounceNext]_vars

\* C24: a position update speaks nothing and leaves the steps with their
\* announced flags, currentStepIndex, isNavigating and the scheduled
\* callbacks as they are whenever isNavigating is false, routeSteps is
\* empty, voiceEnabled is false, currentStepIndex is past the last step, or
\* the current step is announced
C24_NoOp ==
  [][\A p \in Positions :
       ( /\ \/ ~isNavigating
            \/ routeSteps = <<>>
            \/ ~voiceEnabled
            \/ currentStepIndex >= Len(routeSteps)
            \/ routeSteps[currentStepIndex + 1].announced
         /\ PositionUpdate(p) ) =>
         /\ spoken' = <<>>
         /\ UNCHANGED << routeSteps, currentStepIndex, isNavigating, timeouts,
                         announcedLog >>]_vars

\* a position at the location of a step was delivered to a navigating
\* render with voice enabled whose index is past the last step
C24_Witness ==
  /\ isNavigating
  /\ voiceEnabled
  /\ routeSteps # <<>>
  /\ currentStepIndex >= Len(routeSteps)
  /\ userLocation = 140
  /\ spoken = <<>>

(***************************************************************************)
(* The simpler variant of the schedule page (src/unnamed/part_000, and     *)
(* Index.tsx from line 457): items without flags, a check every minute.    *)
(***************************************************************************)
SimpleIntervalMs == 60000

\* part_000 line 150: setInterval(checkSchedules, 60000), in clock steps
SimpleIntervalSteps == SimpleIntervalMs \div StepMs

\* part_000 lines 17-30: the items the variant starts with
SimpleItem(item) ==
  [id |-> item.id, title |-> item.title, time |-> item.time,
   description |-> item.description]
SimpleInitialSchedules ==
  [i \in DOMAIN InitialSchedules |-> SimpleItem(InitialSchedules[i])]

\* the moments the variant's page may be mounted at
SimpleStartTimes == { At(0, 7, 59, 0), At(0, 8, 0, 0), At(0, 8, 0, 30) }

\* part_000 line 135: `${hours padded}:${minutes padded}` at clock step t
SimpleCurrentTime(t) ==
  LET minuteOfDay == (t % StepsPerDay) \div StepsPerMinute
  IN TimeString(minuteOfDay \div 60, minuteOfDay % 60)

\* part_000 lines 133-148: the reminders one call emits, in item order
RECURSIVE SimpleNotices(_, _, _)
SimpleNotices(list, i, t) ==
  IF i > Len(list) THEN <<>>
  ELSE (IF list[i].time = SimpleCurrentTime(t)
        THEN << [kind |-> "reminder", index |-> i, title |-> list[i].title] >>
        ELSE <<>>) \o SimpleNotices(list, i + 1, t)

SimpleInit ==
  /\ schedules = SimpleInitialSchedules
  /\ isListening = FALSE
  /\ recognition = NoRecognition
  /\ timers = <<>>
  /\ effectPending = TRUE
  /\ mounted = TRUE
  /\ now \in SimpleStartTimes
  /\ ms = 0
  /\ elapsed = 0
  /\ spoken = <<>>
  /\ toasts = <<>>
  /\ ops = 0
  /\ tickLog = <<>>
  /\ NavConstructed

\* part_000 lines 132-152: the effect runs for a new schedules array: the
\* previous interval is cleared and a new one starts; nothing is checked
SimpleEffectRun ==
  /\ mounted
  /\ effectPending
  /\ effectPending' = FALSE
  /\ timers' = Append(ClearOwn(timers), SimpleIntervalSteps)
  /\ spoken' = <<>>
  /\ toasts' = <<>>
  /\ UNCHANGED << schedules, isListening, recognition, mounted, now, ms,
                  elapsed, ops, tickLog, nav >>

\* the interval fires
SimpleTick ==
  /\ Idle
  /\ \E i \in 1..Len(timers) :
       /\ timers[i] = 0
       /\ timers' = [timers EXCEPT ![i] = SimpleIntervalSteps]
  /\ spoken' = SimpleNotices(schedules, 1, now)
  /\ toasts' = SimpleNotices(schedules, 1, now)
  /\ UNCHANGED << schedules, isListening, recognition, effectPending, mounted,
                  now, ms, elapsed, ops, tickLog, nav >>

\* part_000 lines 108-120: addSchedule called by the dialog
simpleSubmit(in) ==
  /\ Idle
  /\ in.title # <<>>
  /\ in.time # <<>>
  /\ ops < MaxOps
  /\ ops' = ops + 1
  /\ schedules' = Append(schedules,
                         [id |-> NumberToString(DateNow(now, ms)),
                          title |-> in.title, time |-> in.time,
                          description |-> in.description])
  /\ effectPending' = TRUE
  /\ spoken' = << [kind |-> "Schedule added", title |-> in.title,
                   time |-> in.time] >>
  /\ toasts' = << [title |-> "Schedule Added"] >>
  /\ UNCHANGED << isListening, recognition, timers, mounted, now, ms, elapsed,
                  tickLog, nav >>

SimpleNext ==
  \/ SimpleEffectRun
  \/ SimpleTick
  \/ Advance
  \/ \E in \in DialogInputs : simpleSubmit(in)
  \/ \E id \in IdsOf(schedules) : deleteSchedule(id)
  \/ Unmount

SpecSimple == SimpleInit /\ [][SimpleNext]_vars

\* C25: the reminder check runs at once when the page mounts, in the
\* simpler variant too: the first run of the effect emits the reminder of
\* every item whose time is the current time
C25_CheckedAtMount ==
  [][(elapsed = 0 /\ ops = 0 /\ SimpleEffectRun) =>
       \A i \in DOMAIN schedules :
         schedules[i].time = SimpleCurrentTime(now) =>
           \E k \in DOMAIN spoken' : spoken'[k].index = i]_vars

\* C26: at most one polling interval is live at any moment, however often
\* schedule changes re-create it, and none is live once the page is
\* unmounted
C26_OneTimer ==
  /\ Len(timers) <= 1
  /\ ~mounted => timers = <<>>

\* the collection has changed, the effect has run again for it, and its
\* interval is the one live
C26_Witness ==
  /\ mounted
  /\ ~effectPending
  /\ IdsOf(schedules) # IdsOf(InitialSchedules)
  /\ elapsed > 0
  /\ Len(timers) = 1

\* C27: while navigating with a route, currentStepIndex is the index of a
\* step, every step before it is announced and every step after it is
\* not; and whenever the index changes while the route stays, it grows by
\* exactly one
C27_CursorOrder ==
  /\ [](( isNavigating /\ routeSteps # <<>> ) =>
          /\ 0 <= currentStepIndex
          /\ currentStepIndex < Len(routeSteps)
          /\ \A k \in 0..(Len(routeSteps) - 1) :
               /\ k < currentStepIndex => StepAt(routeSteps, k).announced
               /\ k > currentStepIndex => ~StepAt(routeSteps, k).announced)
  /\ [][( /\ isNavigating /\ isNavigating'
          /\ routeSteps # <<>> /\ routeSteps' # <<>>
          /\ ~RouteSet
          /\ currentStepIndex' # currentStepIndex ) =>
          /\ currentStepIndex' = currentStepIndex + 1
          /\ StepAt(routeSteps', currentStepIndex).announced
          /\ announcedLog' = Append(announcedLog, currentStepIndex)]_vars

\* the index has moved to the last of three steps
C27_Witness ==
  /\ isNavigating
  /\ Len(routeSteps) = 3
  /\ currentStepIndex = 2
  /\ announcedLog = << 0, 1 >>

\* the instruction of the step a scheduled preview is about has already
\* been announced by the 30 m rule
PreviewOutdated(timeout) ==
  /\ ~timeout.arrival
  /\ \E k \in DOMAIN routeSteps :
       /\ routeSteps[k].announced
       /\ (k - 1) \in Range(announcedLog)
       /\ timeout.say = UpcomingText(routeSteps[k])

\* C28: the preview of step k+1, scheduled when step k was announced, is
\* not spoken once the instruction of step k+1 itself has been announced
C28_NoLatePreview ==
  [][\A i \in DOMAIN timeouts :
       (PreviewOutdated(timeouts[i]) /\ TimeoutFires(i)) => spoken' = <<>>]_vars

\* the last step of the current route has not been announced, so an
\* arrival callback that is pending was scheduled for an earlier route
LastStepAhead ==
  /\ isNavigating
  /\ routeSteps # <<>>
  /\ (Len(routeSteps) - 1) \notin Range(announcedLog)

\* C29: an arrival callback scheduled for one route does not end the
\* navigation of a route set after it: when it runs while the last step of
\* the current route is still ahead, isNavigating stays true
C29_ArrivalOfOldRoute ==
  [][(LastStepAhead /\ ArrivalFires) => isNavigating']_vars

\* the call number k of tickLog emitted a notice of the kind for the item
\* at position i
Emitted(k, kind, i) ==
  \E n \in DOMAIN tickLog[k].notices :
    /\ tickLog[k].notices[n].kind = kind
    /\ tickLog[k].notices[n].index = i

\* C30: for no item is the advance notice emitted by a later call than its
\* exact notice, whatever clock readings, never going back, the calls are
\* made at, the next day included
C30_NoAdvanceAfterExact ==
  \A i \in DOMAIN schedules :
    \A a, b \in DOMAIN tickLog :
      (a < b /\ Emitted(a, "exact", i)) => ~Emitted(b, "advance", i)

====
